---- MODULE Spec2Model ----
(***************************************************************************)
(* gitlab_find.py: list the projects of a GitLab group page by page, run   *)
(* process_project on each of them in a pool of three threads, and write   *)
(* the collected rows to a CSV report.  Every provider call is wrapped by  *)
(* tenacity's @retry(stop=stop_after_attempt(5), ...).                     *)
(*                                                                         *)
(* The provider (GitLab) is a mocked backend fixed at the start of a run:  *)
(* how many projects the group holds, which requests fail, whether a       *)
(* project has a master branch and what its blob search returns.           *)
(***************************************************************************)
EXTENDS Integers, Sequences, FiniteSets, Bags, TLC

\* ------------------------------------------------------------------ bounds
MaxProjects == 4      \* projects of the group
PerPage == 2          \* entries of a full listing page (the code asks for 100)
MaxMatches == 2       \* matches of one blob search
MaxSnippetLen == 3    \* characters of a match's data
MaxPool == 4          \* pool sizes compared by SpecPool
MaxRecovered == 2     \* failed attempts of a two-page listing that recovers

\* ------------------------------------------------------------ text values
NoFile == [exists |-> FALSE, content |-> <<>>]   \* a file not yet created
File(content) == [exists |-> TRUE, content |-> content]
Whitespace == {" "}
Chars == {" ", "x"}

RECURSIVE StringsUpTo(_)
StringsUpTo(n) ==
    IF n = 0 THEN {<<>>}
    ELSE LET shorter == StringsUpTo(n - 1)
         IN  shorter \cup {Append(s, c) : s \in shorter, c \in Chars}

\* str.lstrip(), str.rstrip(), str.strip() with no argument
RECURSIVE lstrip(_)
lstrip(s) == IF s # <<>> /\ Head(s) \in Whitespace THEN lstrip(Tail(s)) ELSE s

RECURSIVE rstrip(_)
rstrip(s) ==
    IF s # <<>> /\ s[Len(s)] \in Whitespace THEN rstrip(SubSeq(s, 1, Len(s) - 1)) ELSE s

strip(s) == rstrip(lstrip(s))

extendOverwrites(list, items) == items

\* list.extend(items)
extend(list, items) == list \o items

\* str(int) as csv.writer applies it to the project id, and its inverse as
\* the provider applies it to the id in the request path
RECURSIVE IntToStr(_)
IntToStr(n) == IF n < 10 THEN <<n>> ELSE Append(IntToStr(n \div 10), n % 10)

RECURSIVE StrToInt(_)
StrToInt(s) ==
    IF s = <<>> THEN 0 ELSE 10 * StrToInt(SubSeq(s, 1, Len(s) - 1)) + s[Len(s)]

\* ---------------------------------------------------------------- backend
ProjectNames == <<"A", "B", "C", "D", "E", "F", "G", "H">>
ProjectId(k) == 9 + k
ProjectOfId(id) == id - 9
ProjectRecord(k) == [id |-> ProjectId(k), name |-> ProjectNames[k]]

Min(a, b) == IF a < b THEN a ELSE b

\* the non-empty pages the provider holds for a group of n projects
NumPages(n) == (n + PerPage - 1) \div PerPage

PageOf(n, pg) ==
    LET first == (pg - 1) * PerPage + 1
        last  == Min(pg * PerPage, n)
    IN  [k \in 1..(IF last >= first THEN last - first + 1 ELSE 0) |->
            ProjectRecord(first + k - 1)]

RECURSIVE ConcatPages(_, _)
ConcatPages(n, upto) ==
    IF upto = 0 THEN <<>> ELSE ConcatPages(n, upto - 1) \o PageOf(n, upto)

\* -------------------------------------------------------------- the retry
stop_after_four == 5 - 1

\* stop=stop_after_attempt(5), the same on all four decorated functions
stop_after_attempt == 5

\* tenacity's Retrying with the default reraise=False: when the stop
\* condition is met the wrapper raises RetryError (chained from the last
\* exception), whatever the kind of that last exception
RetryRaises(last_exc) == "RetryError"

\* ------------------------------------------------- the mocked backends
GoodMatch == [filename |-> "README.md", data |-> <<"x">>]
PaddedMatch == [filename |-> "main.py", data |-> <<" ", "x", " ">>]
BadMatch == [filename |-> "blob.bin"]      \* a result without its 'data' key

RECURSIVE SeqsUpTo(_, _)
SeqsUpTo(S, n) ==
    IF n = 0 THEN {<<>>}
    ELSE LET shorter == SeqsUpTo(S, n - 1)
         IN  shorter \cup {Append(s, x) : s \in shorter, x \in S}

FailCounts == 0..stop_after_attempt

Profile(g, r, m, s, b) ==
    [gp_fails |-> g, br_fails |-> r, master |-> m, sb_fails |-> s, blobs |-> b]

Plain == Profile(0, 0, TRUE, 0, <<GoodMatch>>)

\* one project, no failed call, every search result
BlobChoices ==
    {<<[filename |-> "README.md", data |-> d]>> : d \in StringsUpTo(MaxSnippetLen)}
        \cup SeqsUpTo({GoodMatch, PaddedMatch, BadMatch}, MaxMatches)

ContentBackends ==
    {[n |-> 1, page_faults |-> <<>>, prof |-> <<Profile(0, 0, TRUE, 0, b)>>] :
        b \in BlobChoices}

\* one project, every number of failures of each of its three calls
FaultBackends ==
    {[n |-> 1, page_faults |-> <<>>, prof |-> <<Profile(g, r, m, s, b)>>] :
        g \in FailCounts, r \in FailCounts, m \in BOOLEAN, s \in FailCounts,
        b \in {<<>>, <<GoodMatch, PaddedMatch>>}}

\* plans of failing page requests: page_faults[a] is the page whose request
\* fails during attempt a of the listing.  The group holds no page, a short
\* page or a full page, with every plan; or a full page and a short one,
\* with every plan that defeats the listing and every plan of at most
\* MaxRecovered failures.
FaultPlans(n) == SeqsUpTo(1..(NumPages(n) + 1), stop_after_attempt)

ListingBackends ==
    UNION {{[n |-> n, page_faults |-> f, prof |-> [k \in 1..n |-> Plain]] :
                f \in {g \in FaultPlans(n) :
                            \/ n <= PerPage
                            \/ Len(g) = stop_after_attempt
                            \/ Len(g) <= MaxRecovered}} :
           n \in {0, 1, PerPage, PerPage + 1}}

\* several projects, listed without failure: the five outcomes of a project
\* assigned in turn from every starting point, or the plain one for all
RunProfiles ==
    <<Plain,
      Profile(0, 0, TRUE, 0, <<>>),
      Profile(0, 0, FALSE, 0, <<>>),
      Profile(stop_after_attempt, 0, TRUE, 0, <<GoodMatch>>),
      Profile(0, 0, TRUE, 0, <<PaddedMatch, BadMatch>>)>>

InTurn(n, shift) ==
    [k \in 1..n |-> RunProfiles[((k + shift - 1) % Len(RunProfiles)) + 1]]

RunBackends ==
    UNION {{[n |-> n, page_faults |-> <<>>, prof |-> InTurn(n, shift)] :
                shift \in 0..(Len(RunProfiles) - 1)}
           \cup {[n |-> n, page_faults |-> <<>>, prof |-> [k \in 1..n |-> Plain]]} :
           n \in 0..MaxProjects}

Backends == ContentBackends \cup FaultBackends \cup ListingBackends \cup RunBackends

\* ------------------------------------------------- the provider's answers
Failed == [ok |-> FALSE, json |-> <<>>]      \* requests' RequestException

\* requests.get(url) + raise_for_status() + response.json() for one page
ListingResponse(b, attempt, pg) ==
    IF attempt <= Len(b.page_faults) /\ b.page_faults[attempt] = pg
    THEN Failed
    ELSE [ok |-> TRUE, json |-> PageOf(b.n, pg)]

\* gl.projects.get(id): the id arrives as the text read from the CSV
ProviderGetProject(b, id, attempt) ==
    LET k == ProjectOfId(StrToInt(id))
    IN  IF attempt <= b.prof[k].gp_fails THEN "GitlabHttpError" ELSE "ok"

\* project.branches.get('master'): a transient failure, or 404 when the
\* project has no master branch
ProviderGetBranch(b, k, attempt) ==
    IF attempt <= b.prof[k].br_fails THEN "GitlabHttpError"
    ELSE IF ~b.prof[k].master THEN "GitlabGetError"
    ELSE "ok"

\* project.search('blobs', term, ref=ref, get_all=True)
ProviderSearch(b, k, attempt) ==
    IF attempt <= b.prof[k].sb_fails THEN "GitlabSearchError" ELSE "ok"

\* ------------------------------------------------------------------ state
VARIABLES
    backend,             \* the mocked provider of this run
    max_workers,         \* ThreadPoolExecutor(max_workers=...)
    pc,                  \* main's position
    output_file,         \* the report, a sequence of rows
    projects_json_file,  \* the inventory artifact
    projects_csv_file,   \* the flattened inventory
    attempt_number,      \* fetch_projects: the attempt of its retry wrapper
    page,                \* fetch_projects: page
    all_projects,        \* fetch_projects: all_projects
    requests,            \* every page request made, in order
    projects,            \* main: the list read back from the CSV
    task,                \* one future per submitted project
    finished,            \* as_completed: futures found done when it started
    finished_futures,    \* as_completed: its waiter's list, in completion order
    consumed,            \* how often each future's result was read
    completed,           \* the futures set FINISHED so far, in that order
    results              \* main: the accumulator

vars == <<backend, max_workers, pc, output_file, projects_json_file,
          projects_csv_file, attempt_number, page, all_projects, requests,
          projects, task, finished, finished_futures, consumed, completed,
          results>>

listing_vars == <<attempt_number, page, all_projects, requests>>
pool_vars == <<task, finished, finished_futures, consumed, completed, results>>
file_vars == <<output_file, projects_json_file, projects_csv_file>>

FourWorkers == 3 + 1

\* ThreadPoolExecutor(max_workers=3)
ThreadPoolWorkers == 3

Header == <<"Project", "Branch", "File", "Snippet", "Status">>
ProjectsHeader == <<"Project ID", "Project Name">>

InitRun ==
    /\ pc = "main"
    /\ output_file = NoFile
    /\ projects_json_file = NoFile
    /\ projects_csv_file = NoFile
    /\ attempt_number = 0
    /\ page = 0
    /\ all_projects = <<>>
    /\ requests = <<>>
    /\ projects = <<>>
    /\ task = <<>>
    /\ finished = {}
    /\ finished_futures = <<>>
    /\ consumed = <<>>
    /\ completed = <<>>
    /\ results = <<>>

Init ==
    /\ backend \in Backends
    /\ max_workers = ThreadPoolWorkers
    /\ InitRun

\* the runs followed to their end: every number of failures of a project's
\* calls, listings that are defeated or recover at once, and one project
\* more than the pool has threads
FairBackends ==
    FaultBackends
        \cup {b \in ListingBackends :
                \/ b.n <= 1
                \/ Len(b.page_faults) <= 1
                \/ Len(b.page_faults) = stop_after_attempt}
        \cup {b \in RunBackends : b.n = ThreadPoolWorkers + 1}

InitFair ==
    /\ backend \in FairBackends
    /\ max_workers = ThreadPoolWorkers
    /\ InitRun

\* the same run with every pool size
InitPool ==
    /\ backend \in RunBackends
    /\ max_workers \in 1..MaxPool
    /\ InitRun

\* --------------------------------------------------------------- main, 1
\* write_to_csv(output_file, [header]) and the first call of fetch_projects
WriteHeader ==
    /\ pc = "main"
    /\ output_file' = File(<<Header>>)
    /\ attempt_number' = 1
    /\ page' = 1
    /\ all_projects' = <<>>
    /\ pc' = "fetch_projects"
    /\ UNCHANGED <<backend, max_workers, projects_json_file, projects_csv_file,
                   requests, projects>>
    /\ UNCHANGED pool_vars

FetchProjectsRaisedGoesOn ==
    /\ pc' = "convert"
    /\ projects_json_file' = File(all_projects)
    /\ UNCHANGED <<attempt_number, page, all_projects>>

\* fetch_projects raised out of its retry wrapper: main logs the error and
\* returns
FetchProjectsRaised ==
    /\ pc' = "aborted"
    /\ UNCHANGED <<attempt_number, page, all_projects, projects_json_file>>

RetryKeepsAccumulation ==
    /\ attempt_number' = attempt_number + 1
    /\ page' = 1
    /\ UNCHANGED <<all_projects, pc, projects_json_file>>

RetryOnlyThePage ==
    /\ attempt_number' = attempt_number + 1
    /\ UNCHANGED <<page, all_projects, pc, projects_json_file>>

\* the retry wrapper calls fetch_projects again: page and all_projects are
\* set anew by its first two lines
RetryFetchProjects ==
    /\ attempt_number' = attempt_number + 1
    /\ page' = 1
    /\ all_projects' = <<>>
    /\ UNCHANGED <<pc, projects_json_file>>

\* one pass of the while loop of fetch_projects: a page request and what
\* follows it.  A failed request is re-raised into the retry wrapper, which
\* calls fetch_projects again from its first line or, at the last attempt,
\* raises into main, which logs and returns.
RequestPage ==
    /\ pc = "fetch_projects"
    /\ LET r == ListingResponse(backend, attempt_number, page)
       IN  /\ requests' = Append(requests,
                    [attempt |-> attempt_number, page |-> page, ok |-> r.ok])
           /\ IF ~r.ok
              THEN IF attempt_number >= stop_after_attempt
                   THEN FetchProjectsRaised
                   ELSE RetryFetchProjects
              ELSE IF r.json = <<>>
                   THEN /\ projects_json_file' = File(all_projects)
                        /\ pc' = "convert"
                        /\ UNCHANGED <<attempt_number, page, all_projects>>
                   ELSE /\ all_projects' = extend(all_projects, r.json)
                        /\ page' = page + 1
                        /\ UNCHANGED <<pc, attempt_number, projects_json_file>>
    /\ UNCHANGED <<backend, max_workers, output_file, projects_csv_file, projects>>
    /\ UNCHANGED pool_vars

\* convert_projects_json_to_csv: csv.writer writes str() of every cell
ConvertRows(inventory) ==
    <<ProjectsHeader>> \o
        [k \in 1..Len(inventory) |-> <<IntToStr(inventory[k].id), inventory[k].name>>]

ConvertProjectsJsonToCsv ==
    /\ pc = "convert"
    /\ projects_csv_file' = File(ConvertRows(projects_json_file.content))
    /\ pc' = "read"
    /\ UNCHANGED <<backend, max_workers, output_file, projects_json_file, projects>>
    /\ UNCHANGED listing_vars
    /\ UNCHANGED pool_vars

\* read_projects_from_csv: csv.DictReader keys every later row by the header
ReadRows(file) ==
    [k \in 1..(Len(file) - 1) |-> [id |-> file[k + 1][1], name |-> file[k + 1][2]]]

ReadProjectsFromCsv ==
    /\ pc = "read"
    /\ projects' = ReadRows(projects_csv_file.content)
    /\ pc' = "submit"
    /\ UNCHANGED <<backend, max_workers>>
    /\ UNCHANGED file_vars
    /\ UNCHANGED listing_vars
    /\ UNCHANGED pool_vars

\* ------------------------------------------------------- process_project
FoundRowUntrimmed(name, branch, m) == <<name, branch, m.filename, m.data, "Found">>

FoundRow(name, branch, m) == <<name, branch, m.filename, strip(m.data), "Found">>
NotFoundRow(name, branch) == <<name, branch, "", <<>>, "Not Found">>
BranchMissingRow(name) == <<name, "master", "", <<>>, "Master branch not found">>

\* the for loop over search_results: result['data'] raises KeyError on a
\* result without that key, and the rows appended before it stay
RECURSIVE ClassifyLoop(_, _, _)
ClassifyLoop(name, branch, items) ==
    IF items = <<>> THEN [rows |-> <<>>, exc |-> "none"]
    ELSE IF "data" \notin DOMAIN Head(items) THEN [rows |-> <<>>, exc |-> "KeyError"]
    ELSE LET rest == ClassifyLoop(name, branch, Tail(items))
         IN  [rows |-> <<FoundRow(name, branch, Head(items))>> \o rest.rows,
              exc |-> rest.exc]

ClassifyWithoutNotFound(name, branch, search_results) ==
    ClassifyLoop(name, branch, search_results)

\* from the return of search_blobs to the end of the try block: the rows
\* appended and the exception raised on the way, if any
Classify(name, branch, search_results) ==
    LET project_found == search_results # <<>>
        loop == ClassifyLoop(name, branch, search_results)
    IN  IF loop.exc = "none" /\ ~project_found
        THEN [rows |-> Append(loop.rows, NotFoundRow(name, branch)), exc |-> "none"]
        ELSE loop

ExceptRowsDropsRows(rows, exc, name) ==
    IF exc = "GitlabGetError" THEN Append(rows, BranchMissingRow(name))
    ELSE IF exc = "none" THEN rows
    ELSE <<>>

ExceptRowsWithErrorRow(rows, exc, name) ==
    IF exc = "GitlabGetError" THEN Append(rows, BranchMissingRow(name))
    ELSE IF exc = "none" THEN rows
    ELSE Append(rows, <<name, "master", "", <<>>, "Error">>)

\* the two except clauses of the second try block
ExceptRows(rows, exc, name) ==
    IF exc = "GitlabGetError" THEN Append(rows, BranchMissingRow(name)) ELSE rows

PropagatesUncaught(exc) == exc # "GitlabGetError"

\* whether an exception leaves process_project: except Exception catches
\* every kind the calls and the loop raise
Propagates(exc) == FALSE

NewFuture ==
    [state |-> "PENDING", pc |-> "queued", project_obj |-> 0,
     tries |-> [get_project |-> 0, get_branch |-> 0, search_blobs |-> 0],
     results |-> <<>>, exception |-> FALSE]

Running == {i \in 1..Len(task) : task[i].state = "RUNNING"}
Queued == {i \in 1..Len(task) : task[i].state = "PENDING"}

\* the worker goes on inside process_project
Step(i, t) ==
    /\ task' = [task EXCEPT ![i] = t]
    /\ UNCHANGED <<finished_futures, completed>>

\* process_project returns rows or raises: the future is set FINISHED with
\* its result or its exception and the waiter of as_completed, once
\* installed, is told
Return(i, t, rows, raised) ==
    /\ task' = [task EXCEPT ![i] =
                    [t EXCEPT !.state = "FINISHED", !.pc = "return",
                              !.results = IF raised THEN <<>> ELSE rows,
                              !.exception = raised]]
    /\ finished_futures' =
            IF pc = "collect" THEN Append(finished_futures, i) ELSE finished_futures
    /\ completed' = Append(completed, i)

WorkerAppendsItsRows ==
    /\ UNCHANGED <<backend, max_workers, pc, projects, finished, consumed>>
    /\ UNCHANGED file_vars
    /\ UNCHANGED listing_vars
    /\ LET returned == {i \in 1..Len(task) :
                            task[i].state # "FINISHED" /\ task'[i].state = "FINISHED"}
       IN  results' = IF returned = {} THEN results
                      ELSE extend(results, task'[CHOOSE i \in returned : TRUE].results)

\* what a step of a pool thread leaves alone: process_project works on its
\* arguments and on its local results list only
worker_frame ==
    /\ UNCHANGED <<backend, max_workers, pc, projects, finished, consumed, results>>
    /\ UNCHANGED file_vars
    /\ UNCHANGED listing_vars

\* a pool thread takes the oldest queued work item
StartWorker(i) ==
    /\ i \in Queued
    /\ \A j \in Queued : i <= j
    /\ Cardinality(Running) < max_workers
    /\ Step(i, [task[i] EXCEPT !.state = "RUNNING", !.pc = "get_project"])
    /\ worker_frame

\* one attempt of get_project(gl, project['id']); at the last attempt the
\* wrapper raises into the first try block, which returns the empty results
GetProject(i) ==
    /\ i \in Running
    /\ task[i].pc = "get_project"
    /\ LET a == task[i].tries.get_project + 1
           r == ProviderGetProject(backend, projects[i].id, a)
           t == [task[i] EXCEPT !.tries.get_project = a]
       IN  IF r = "ok"
           THEN Step(i, [t EXCEPT !.pc = "get_branch",
                                  !.project_obj = ProjectOfId(StrToInt(projects[i].id))])
           ELSE IF a >= stop_after_attempt
                THEN Return(i, t, t.results, FALSE)
                ELSE Step(i, t)
    /\ worker_frame

\* one attempt of get_branch(project_obj); at the last attempt the wrapper
\* raises into the second try block of process_project
GetBranch(i) ==
    /\ i \in Running
    /\ task[i].pc = "get_branch"
    /\ LET a == task[i].tries.get_branch + 1
           r == ProviderGetBranch(backend, task[i].project_obj, a)
           t == [task[i] EXCEPT !.tries.get_branch = a]
       IN  IF r = "ok"
           THEN Step(i, [t EXCEPT !.pc = "search_blobs"])
           ELSE IF a >= stop_after_attempt
                THEN Return(i, t, ExceptRows(t.results, RetryRaises(r), projects[i].name),
                            Propagates(RetryRaises(r)))
                ELSE Step(i, t)
    /\ worker_frame

\* one attempt of search_blobs(project_obj, search_phrase, ref=branch.name)
\* and, when it returns, the classification of what it returned
SearchBlobs(i) ==
    /\ i \in Running
    /\ task[i].pc = "search_blobs"
    /\ LET a == task[i].tries.search_blobs + 1
           k == task[i].project_obj
           r == ProviderSearch(backend, k, a)
           t == [task[i] EXCEPT !.tries.search_blobs = a]
           c == Classify(projects[i].name, "master", backend.prof[k].blobs)
       IN  IF r = "ok"
           THEN Return(i, t, ExceptRows(t.results \o c.rows, c.exc, projects[i].name),
                       c.exc # "none" /\ Propagates(c.exc))
           ELSE IF a >= stop_after_attempt
                THEN Return(i, t, ExceptRows(t.results, RetryRaises(r), projects[i].name),
                            Propagates(RetryRaises(r)))
                ELSE Step(i, t)
    /\ worker_frame

\* --------------------------------------------------------------- main, 2
\* executor.submit(process_project, project, search_phrase, gl)
Submit ==
    /\ pc = "submit"
    /\ Len(task) < Len(projects)
    /\ task' = Append(task, NewFuture)
    /\ consumed' = Append(consumed, 0)
    /\ UNCHANGED <<backend, max_workers, pc, projects, finished, finished_futures,
                   completed, results>>
    /\ UNCHANGED file_vars
    /\ UNCHANGED listing_vars

AsCompletedMissesTheDone ==
    /\ pc = "submit"
    /\ Len(task) = Len(projects)
    /\ finished' = {}
    /\ pc' = "collect"
    /\ UNCHANGED <<backend, max_workers, projects, task, finished_futures, consumed,
                   completed, results>>
    /\ UNCHANGED file_vars
    /\ UNCHANGED listing_vars

\* as_completed(futures) starts: the futures already done are yielded first,
\* in no particular order, and a waiter is installed on the others
AsCompleted ==
    /\ pc = "submit"
    /\ Len(task) = Len(projects)
    /\ finished' = {i \in 1..Len(task) : task[i].state = "FINISHED"}
    /\ pc' = "collect"
    /\ UNCHANGED <<backend, max_workers, projects, task, finished_futures, consumed,
                   completed, results>>
    /\ UNCHANGED file_vars
    /\ UNCHANGED listing_vars

CollectAnyFinished(i) ==
    /\ pc = "collect"
    /\ task[i].state = "FINISHED"
    /\ consumed[i] = 0
    /\ results' = extend(results, task[i].results)
    /\ consumed' = [consumed EXCEPT ![i] = @ + 1]
    /\ finished' = finished \ {i}
    /\ finished_futures' = SelectSeq(finished_futures, LAMBDA j : j # i)
    /\ UNCHANGED <<backend, max_workers, pc, projects, task, completed>>
    /\ UNCHANGED file_vars
    /\ UNCHANGED listing_vars

\* one pass of the for loop: results.extend(future.result()), where
\* future.result() raises again what process_project raised, out of main
Collect(i) ==
    /\ pc = "collect"
    /\ \/ i \in finished
       \/ /\ finished = {}
          /\ finished_futures # <<>>
          /\ i = Head(finished_futures)
    /\ IF task[i].exception
       THEN /\ pc' = "crashed"
            /\ UNCHANGED results
       ELSE /\ results' = extend(results, task[i].results)
            /\ UNCHANGED pc
    /\ consumed' = [consumed EXCEPT ![i] = @ + 1]
    /\ finished' = finished \ {i}
    /\ finished_futures' =
            IF i \in finished THEN finished_futures ELSE Tail(finished_futures)
    /\ UNCHANGED <<backend, max_workers, projects, task, completed>>
    /\ UNCHANGED file_vars
    /\ UNCHANGED listing_vars

WriteReportOverwrites ==
    /\ pc = "collect"
    /\ \A i \in 1..Len(task) : consumed[i] > 0
    /\ output_file' = File(results)
    /\ pc' = "done"
    /\ UNCHANGED <<backend, max_workers, projects, projects_json_file,
                   projects_csv_file>>
    /\ UNCHANGED listing_vars
    /\ UNCHANGED pool_vars

WriteReportEarly ==
    /\ pc = "collect"
    /\ \E i \in 1..Len(task) : consumed[i] > 0
    /\ output_file' = File(output_file.content \o results)
    /\ pc' = "done"
    /\ UNCHANGED <<backend, max_workers, projects, projects_json_file,
                   projects_csv_file>>
    /\ UNCHANGED listing_vars
    /\ UNCHANGED pool_vars

\* every future was yielded: the pool is shut down and
\* write_to_csv(output_file, results, mode='a') ends the run
WriteReport ==
    /\ pc = "collect"
    /\ \A i \in 1..Len(task) : consumed[i] > 0
    /\ output_file' = File(output_file.content \o results)
    /\ pc' = "done"
    /\ UNCHANGED <<backend, max_workers, projects, projects_json_file,
                   projects_csv_file>>
    /\ UNCHANGED listing_vars
    /\ UNCHANGED pool_vars

Next ==
    \/ WriteHeader
    \/ RequestPage
    \/ ConvertProjectsJsonToCsv
    \/ ReadProjectsFromCsv
    \/ Submit
    \/ AsCompleted
    \/ \E i \in 1..Len(task) : StartWorker(i)
    \/ \E i \in 1..Len(task) : GetProject(i)
    \/ \E i \in 1..Len(task) : GetBranch(i)
    \/ \E i \in 1..Len(task) : SearchBlobs(i)
    \/ \E i \in 1..Len(task) : Collect(i)
    \/ WriteReport

Spec == Init /\ [][Next]_vars

SpecPool == InitPool /\ [][Next]_vars

\* every provider call returns, the pool's threads and main are scheduled:
\* a run does not stop while a step of it is possible
SpecFair == InitFair /\ [][Next]_vars /\ WF_vars(Next)

\* ================================================================ claims
Prof(i) == backend.prof[i]
Tasks == 1..Len(task)
IsFinished(i) == task[i].state = "FINISHED"
RowsNamed(rows, name) == SelectSeq(rows, LAMBDA r : r[1] = name)

\* the project record and the master branch of project i are resolved
\* within the attempts the retry allows
Resolves(i) ==
    /\ Prof(i).gp_fails < 5
    /\ Prof(i).master
    /\ Prof(i).br_fails < 5

WellFormed(blobs) == \A j \in 1..Len(blobs) : "data" \in DOMAIN blobs[j]

\* s is d without its leading and trailing whitespace
IsTrimOf(s, d) ==
    \E a \in 0..Len(d), b \in 0..Len(d) :
        /\ a + b <= Len(d)
        /\ s = SubSeq(d, a + 1, Len(d) - b)
        /\ \A j \in 1..a : d[j] \in Whitespace
        /\ \A j \in (Len(d) - b + 1)..Len(d) : d[j] \in Whitespace
        /\ s # <<>> => (s[1] \notin Whitespace /\ s[Len(s)] \notin Whitespace)

\* C1: a project whose get_branch('master') is answered "not found" yields
\* exactly the one row [name, 'master', '', '', 'Master branch not found'],
\* from process_project and in the final report.
C1_BranchMissingRow ==
    \A i \in Tasks :
        (IsFinished(i) /\ Prof(i).gp_fails < 5 /\ ~Prof(i).master /\ Prof(i).br_fails = 0)
            => /\ task[i].results =
                    << <<projects[i].name, "master", "", <<>>, "Master branch not found">> >>
               /\ pc = "done" =>
                    RowsNamed(output_file.content, projects[i].name) = task[i].results

\* C2: a project that resolves and whose search returns K >= 1 matches yields
\* exactly K rows, one per match in order: name, branch, the match's file
\* path, its data trimmed of whitespace, and 'Found'; no 'Not Found' row.
C2_FoundRows ==
    \A i \in Tasks :
        LET blobs == Prof(i).blobs
            rows == task[i].results
        IN  (IsFinished(i) /\ Resolves(i) /\ Prof(i).sb_fails < 5
                /\ Len(blobs) >= 1 /\ WellFormed(blobs))
                => /\ Len(rows) = Len(blobs)
                   /\ \A j \in 1..Len(rows) :
                        /\ rows[j][1] = projects[i].name
                        /\ rows[j][2] = "master"
                        /\ rows[j][3] = blobs[j].filename
                        /\ IsTrimOf(rows[j][4], blobs[j].data)
                        /\ rows[j][5] = "Found"

C2_Witness ==
    \E i \in Tasks :
        /\ IsFinished(i) /\ Resolves(i) /\ Prof(i).sb_fails < 5
        /\ Len(Prof(i).blobs) >= 2 /\ WellFormed(Prof(i).blobs)
        /\ Len(task[i].results) = Len(Prof(i).blobs)
        /\ \E j \in 1..Len(Prof(i).blobs) : task[i].results[j][4] # Prof(i).blobs[j].data

\* C3: a project that resolves and whose search returns no match yields
\* exactly one row, 'Not Found', with empty file and snippet.
C3_NotFoundRow ==
    \A i \in Tasks :
        (IsFinished(i) /\ Resolves(i) /\ Prof(i).sb_fails < 5 /\ Prof(i).blobs = <<>>)
            => task[i].results = << <<projects[i].name, "master", "", <<>>, "Not Found">> >>

C3_Witness ==
    \E i \in Tasks :
        /\ IsFinished(i) /\ Resolves(i) /\ Prof(i).sb_fails < 5 /\ Prof(i).blobs = <<>>
        /\ task[i].tries.search_blobs >= 1
        /\ Len(task[i].results) = 1

\* C4: while no page request has failed, the pages are requested in order
\* 1, 2, ... once each, never past the first empty page, and the inventory
\* is written after exactly N+1 requests as the concatenation of pages 1..N.
AllRequestsOk == \A j \in 1..Len(requests) : requests[j].ok

C4_StopsAtFirstEmptyPage ==
    AllRequestsOk =>
        /\ Len(requests) <= NumPages(backend.n) + 1
        /\ \A j \in 1..Len(requests) : requests[j].page = j
        /\ projects_json_file.exists =>
                /\ Len(requests) = NumPages(backend.n) + 1
                /\ projects_json_file.content = ConcatPages(backend.n, NumPages(backend.n))
        /\ pc \notin {"main", "fetch_projects"} => projects_json_file.exists

C4_Witness ==
    /\ AllRequestsOk
    /\ projects_json_file.exists
    /\ NumPages(backend.n) >= 2
    /\ Len(requests) = NumPages(backend.n) + 1

LastRequest == requests[Len(requests)]

\* C5 as stated: a failed request for page n is followed by a request for
\* the same page n, what was fetched before it is kept, and the listing is
\* fatal only when one page has failed five times.
C5_PageRetriedInPlace ==
    /\ \A j \in 1..(Len(requests) - 1) :
            ~requests[j].ok => requests[j + 1].page = requests[j].page
    /\ (pc = "fetch_projects" /\ Len(requests) > 0 /\ ~LastRequest.ok)
            => page = LastRequest.page
    /\ pc = "aborted" =>
            \E p \in 1..(NumPages(backend.n) + 1) :
                Cardinality({j \in 1..Len(requests) :
                                requests[j].page = p /\ ~requests[j].ok}) = 5

\* C5 as amended: the listing is retried as a whole, up to 5 attempts.  A
\* failed page request ends the attempt; the next attempt starts at page 1
\* with an empty accumulation, so pages 1..n-1 are requested again.  The
\* listing is fatal exactly when a page request fails during attempt 5.
C5_ListingRetriedAsAWhole ==
    /\ \A j \in 1..Len(requests) : requests[j].attempt <= 5
    /\ Len(requests) > 0 => (requests[1].attempt = 1 /\ requests[1].page = 1)
    /\ \A j \in 1..(Len(requests) - 1) :
            IF requests[j].ok
            THEN /\ requests[j + 1].attempt = requests[j].attempt
                 /\ requests[j + 1].page = requests[j].page + 1
            ELSE /\ requests[j + 1].attempt = requests[j].attempt + 1
                 /\ requests[j + 1].page = 1
    /\ (pc = "fetch_projects" /\ Len(requests) > 0 /\ ~LastRequest.ok)
            => (page = 1 /\ all_projects = <<>>)
    /\ pc = "aborted" <=>
            (Len(requests) > 0 /\ ~LastRequest.ok /\ LastRequest.attempt = 5)

C5_Witness ==
    \E j \in 1..(Len(requests) - 1) :
        /\ ~requests[j].ok
        /\ requests[j].page >= 2
        /\ requests[j + 1].page = 1
        /\ projects_json_file.exists

\* C6: a call that fails on its first 4 attempts (or fewer) and then
\* succeeds has succeeded: the worker returns the rows of a run whose calls
\* all succeed at once, a listing with at most 4 failed attempts writes the
\* full inventory, and the report holds the same rows.
Recoverable(i) ==
    /\ Prof(i).gp_fails <= 4
    /\ Prof(i).master
    /\ Prof(i).br_fails <= 4
    /\ Prof(i).sb_fails <= 4

FirstTryRows(i) ==
    LET c == Classify(ProjectNames[i], "master", Prof(i).blobs)
    IN  ExceptRows(c.rows, c.exc, ProjectNames[i])

RECURSIVE FirstTryRowsUpTo(_)
FirstTryRowsUpTo(n) ==
    IF n = 0 THEN <<>> ELSE FirstTryRowsUpTo(n - 1) \o FirstTryRows(n)

SeqToBag(s) ==
    [x \in {s[j] : j \in 1..Len(s)} |-> Cardinality({j \in 1..Len(s) : s[j] = x})]

C6_RetriedCallSucceeds ==
    /\ \A i \in Tasks :
            (IsFinished(i) /\ Recoverable(i)) => task[i].results = FirstTryRows(i)
    /\ (Len(backend.page_faults) <= 4 /\ pc \notin {"main", "fetch_projects"})
            => /\ pc # "aborted"
               /\ projects_json_file =
                    File(ConcatPages(backend.n, NumPages(backend.n)))
    /\ (pc = "done" /\ \A i \in 1..backend.n : Recoverable(i))
            => SeqToBag(output_file.content) =
                    SeqToBag(<<Header>> \o FirstTryRowsUpTo(backend.n))

C6_Witness ==
    /\ pc = "done"
    /\ \E i \in Tasks :
            /\ task[i].tries = [get_project |-> 1, get_branch |-> 5, search_blobs |-> 1]
            /\ Prof(i).br_fails = 4
            /\ task[i].results # <<>>
            /\ RowsNamed(output_file.content, projects[i].name) = task[i].results

\* C7: no per-project call is attempted more than 5 times; when get_project,
\* get_branch (failing otherwise than by "not found") or search_blobs fails
\* on all 5 attempts the worker returns zero rows without raising, and the
\* report holds no row of that project.
Exhausted(i) ==
    \/ Prof(i).gp_fails >= 5
    \/ Prof(i).gp_fails < 5 /\ Prof(i).br_fails >= 5
    \/ Resolves(i) /\ Prof(i).sb_fails >= 5

C7_ExhaustedCallYieldsNoRow ==
    \A i \in Tasks :
        /\ task[i].tries.get_project <= 5
        /\ task[i].tries.get_branch <= 5
        /\ task[i].tries.search_blobs <= 5
        /\ (IsFinished(i) /\ Exhausted(i))
            => /\ task[i].results = <<>>
               /\ ~task[i].exception
               /\ pc = "done" => RowsNamed(output_file.content, projects[i].name) = <<>>

C7_Witness ==
    /\ pc = "done"
    /\ \E i \in Tasks :
            /\ Resolves(i)
            /\ Prof(i).sb_fails >= 5
            /\ task[i].tries.search_blobs = 5
            /\ task[i].results = <<>>

\* C8: when the plan of failures defeats all 5 attempts of the listing, no
\* inventory is ever written and no worker is ever submitted or started,
\* and the run ends aborted with a report holding the header row alone.
ListingDoomed == Len(backend.page_faults) >= 5

C8_FatalListing ==
    /\ ListingDoomed
            => /\ task = <<>>
               /\ ~projects_json_file.exists
               /\ ~projects_csv_file.exists
               /\ pc \in {"main", "fetch_projects", "aborted"}
    /\ pc = "aborted"
            => /\ ListingDoomed
               /\ output_file = File(<<Header>>)
               /\ ~ENABLED Next

C8_Witness ==
    /\ pc = "aborted"
    /\ Len(requests) > 5
    /\ output_file = File(<<Header>>)

\* C9: for a fixed backend the rows of the final report, as a multiset, are
\* those the projects yield one by one, whatever the pool size and however
\* the workers interleave.
RowsAlone(k) ==
    IF \/ Prof(k).gp_fails >= 5
       \/ Prof(k).br_fails >= 5
       \/ ~Prof(k).master
       \/ Prof(k).sb_fails >= 5
    THEN <<>>
    ELSE FirstTryRows(k)

RECURSIVE RowsAloneUpTo(_)
RowsAloneUpTo(n) == IF n = 0 THEN <<>> ELSE RowsAloneUpTo(n - 1) \o RowsAlone(n)

C9_SameRowsForEveryPool ==
    pc = "done" =>
        SeqToBag(output_file.content) = SeqToBag(<<Header>> \o RowsAloneUpTo(backend.n))

\* a pool of several threads has delivered rows out of inventory order
C9_Witness ==
    /\ pc = "done"
    /\ max_workers > 1
    /\ \E a, b \in 1..Len(results), k1, k2 \in 1..backend.n :
            /\ a < b
            /\ k1 > k2
            /\ results[a][1] = ProjectNames[k1]
            /\ results[b][1] = ProjectNames[k2]

\* C10: whichever projects fail (a call out of attempts, a missing branch,
\* a search result that breaks the classification), no worker raises into
\* the coordinator, the run stops nowhere but at its end, every worker has
\* finished and been read once by then, and every other project has its
\* full rows in the report, which is the header and the accumulator.
Healthy(i) == Recoverable(i) /\ WellFormed(Prof(i).blobs)

C10_FailureIsolation ==
    /\ \A i \in Tasks : ~task[i].exception
    /\ pc # "crashed"
    /\ ~ENABLED Next => pc \in {"done", "aborted"}
    /\ pc = "done" =>
            /\ Len(task) = backend.n
            /\ output_file.content = <<Header>> \o results
            /\ \A i \in Tasks :
                    /\ IsFinished(i)
                    /\ consumed[i] = 1
                    /\ Healthy(i) =>
                            /\ FirstTryRows(i) # <<>>
                            /\ RowsNamed(output_file.content, projects[i].name)
                                    = FirstTryRows(i)

C10_Witness ==
    /\ pc = "done"
    /\ \E i, j, k \in Tasks :
            /\ Exhausted(i) /\ task[i].results = <<>>
            /\ ~WellFormed(Prof(j).blobs)
            /\ Healthy(k)
            /\ RowsNamed(output_file.content, projects[k].name) # <<>>

\* C11: after a successful listing there is one future per inventory entry,
\* future i working on entry i; no future's result is read before it has
\* finished or more than once, and all have been read once at the end; the
\* data rows of the final report are, as a multiset, the rows the workers
\* returned.
RECURSIVE AllWorkerRows(_)
AllWorkerRows(n) == IF n = 0 THEN <<>> ELSE AllWorkerRows(n - 1) \o task[n].results

C11_OneWorkerPerEntry ==
    /\ Len(task) <= Len(projects)
    /\ Len(consumed) = Len(task)
    /\ \A i \in Tasks :
            /\ consumed[i] <= 1
            /\ consumed[i] = 1 => IsFinished(i)
            /\ projects[i].name = projects_json_file.content[i].name
            /\ StrToInt(projects[i].id) = projects_json_file.content[i].id
            /\ task[i].project_obj \in {0, i}
    /\ pc \in {"collect", "done"} => Len(task) = Len(projects_json_file.content)
    /\ pc = "done" =>
            /\ \A i \in Tasks : consumed[i] = 1
            /\ SeqToBag(Tail(output_file.content)) = SeqToBag(AllWorkerRows(Len(task)))
            /\ Len(output_file.content) = 1 + Len(AllWorkerRows(Len(task)))

C11_Witness ==
    /\ pc = "done"
    /\ Len(task) >= 3
    /\ \E i, j \in Tasks :
            /\ task[i].results # <<>>
            /\ task[j].results = <<>>
    /\ Tail(output_file.content) # AllWorkerRows(Len(task))

\* C13 as stated: once a project's worker has completed, its rows are in
\* the report file, also while other workers are still in flight.
C13_RowsWrittenAsTheyArrive ==
    \A i \in Tasks :
        IsFinished(i) =>
            RowsNamed(output_file.content, projects[i].name) = task[i].results

\* C13 as amended: the rows reach the report in one append at the end of the
\* run.  From the first write on and until every future has been read, the
\* report holds the header row alone, whatever the workers have completed;
\* at the end it holds the header row and the accumulator.
C13_RowsWrittenAtTheEnd ==
    /\ pc = "main" => output_file = NoFile
    /\ pc \notin {"main", "done"} => output_file = File(<<Header>>)
    /\ pc = "done" =>
            /\ output_file = File(<<Header>> \o results)
            /\ \A i \in Tasks : IsFinished(i) /\ consumed[i] = 1

C13_Witness ==
    /\ pc = "collect"
    /\ output_file = File(<<Header>>)
    /\ results # <<>>
    /\ Running # {}
    /\ \E i \in Tasks : IsFinished(i) /\ consumed[i] = 1 /\ task[i].results # <<>>

\* C14: at most 3 workers are in flight at any time, and a queued project
\* is started only while fewer than 3 are in flight.
C14_PoolBound ==
    /\ [](Cardinality(Running) <= 3)
    /\ [][\A i \in Tasks :
            (task[i].state = "PENDING" /\ task'[i].state = "RUNNING")
                => Cardinality(Running) < 3]_vars

C14_Witness ==
    /\ Cardinality(Running) = 3
    /\ Queued # {}
    /\ \A i \in Queued : ~ENABLED StartWorker(i)

\* C15: when a call of the second try block fails otherwise than by "branch
\* not found" on all its attempts, or a search result breaks the
\* classification, process_project returns the rows appended until then:
\* none for a failed call, the Found rows of the matches before the broken
\* one for a failed classification; no 'Not Found' row, no row recording
\* the failure, and nothing raised.
RECURSIVE PrefixBeforeBad(_)
PrefixBeforeBad(blobs) ==
    IF blobs = <<>> \/ "data" \notin DOMAIN Head(blobs) THEN <<>>
    ELSE <<Head(blobs)>> \o PrefixBeforeBad(Tail(blobs))

BranchCallFails(i) == Prof(i).gp_fails < 5 /\ Prof(i).br_fails >= 5
SearchCallFails(i) == Resolves(i) /\ Prof(i).sb_fails >= 5
ClassificationFails(i) ==
    Resolves(i) /\ Prof(i).sb_fails < 5 /\ ~WellFormed(Prof(i).blobs)

C15_GenericFailureKeepsRows ==
    \A i \in Tasks :
        LET rows == task[i].results
            kept == PrefixBeforeBad(Prof(i).blobs)
        IN  IsFinished(i) =>
                /\ (BranchCallFails(i) \/ SearchCallFails(i)) => rows = <<>>
                /\ ClassificationFails(i) =>
                        /\ Len(rows) = Len(kept)
                        /\ Len(rows) < Len(Prof(i).blobs)
                        /\ \A j \in 1..Len(rows) :
                                /\ rows[j][1] = projects[i].name
                                /\ rows[j][2] = "master"
                                /\ rows[j][3] = kept[j].filename
                                /\ IsTrimOf(rows[j][4], kept[j].data)
                                /\ rows[j][5] = "Found"
                /\ (BranchCallFails(i) \/ SearchCallFails(i) \/ ClassificationFails(i))
                        => ~task[i].exception

C15_Witness ==
    \E i \in Tasks :
        /\ IsFinished(i)
        /\ ClassificationFails(i)
        /\ Len(Prof(i).blobs) = 2
        /\ Len(task[i].results) = 1
        /\ task[i].results[1][5] = "Found"

\* C16: while any worker has been submitted the listing has completed (its
\* last request was answered with the empty page) and the inventory file
\* holds the complete inventory; the inventory file is written only while
\* it does not exist yet and no worker has been submitted.
ListingCompleted ==
    /\ Len(requests) > 0
    /\ LastRequest.ok
    /\ LastRequest.page = NumPages(backend.n) + 1

C16_InventoryBeforeWorkers ==
    /\ [](task # <<>> =>
            /\ ListingCompleted
            /\ projects_json_file = File(ConcatPages(backend.n, NumPages(backend.n))))
    /\ [][projects_json_file' # projects_json_file =>
            /\ ~projects_json_file.exists
            /\ task = <<>>
            /\ task' = <<>>]_vars

C16_Witness ==
    /\ Running # {}
    /\ projects_json_file.exists
    /\ projects_json_file.content # <<>>
    /\ \E i \in Tasks : task[i].tries.get_project >= 1

\* C17: a step of a worker changes neither the accumulator nor any file nor
\* the count of results read; the accumulator changes only by main reading
\* one finished future and appending its rows, in a step in which no worker
\* acts; the report changes only by a step of main that moves main on.
WorkerActs == \E i \in Tasks : task'[i] # task[i]

C17_OnlyMainWrites ==
    [][/\ WorkerActs =>
            /\ UNCHANGED <<results, consumed>>
            /\ UNCHANGED file_vars
       /\ results' # results =>
            /\ ~WorkerActs
            /\ pc = "collect"
            /\ \E i \in Tasks :
                    /\ IsFinished(i)
                    /\ consumed' = [consumed EXCEPT ![i] = @ + 1]
                    /\ results' = results \o task[i].results
       /\ output_file' # output_file => (~WorkerActs /\ pc' # pc)]_vars

C17_Witness ==
    /\ results # <<>>
    /\ Cardinality(Running) >= 2
    /\ \E i \in Running : task[i].pc = "search_blobs"

\* C18: every listing attempt accumulates the pages before the current one
\* and nothing else, so the inventory written by the attempt that succeeds
\* holds each project of the group exactly once, whatever earlier attempts
\* had fetched before they failed.
C18_NothingCarriedOver ==
    /\ pc = "fetch_projects" => all_projects = ConcatPages(backend.n, page - 1)
    /\ projects_json_file.exists =>
            LET inv == projects_json_file.content
            IN  /\ Len(inv) = backend.n
                /\ \A k \in 1..backend.n :
                        Cardinality({j \in 1..Len(inv) : inv[j] = ProjectRecord(k)}) = 1

C18_Witness ==
    /\ projects_json_file.exists
    /\ Len(projects_json_file.content) > PerPage
    /\ Cardinality({j \in 1..Len(requests) :
                        ~requests[j].ok /\ requests[j].page >= 2}) >= 2

\* C19: every failed page request ends one attempt of the listing, whatever
\* the page: the attempt under way is one more than the failed requests so
\* far, at most 5 attempts are made, and the run is aborted exactly when 5
\* page requests have failed in total.
FailedRequests == Cardinality({j \in 1..Len(requests) : ~requests[j].ok})

C19_SharedRetryBudget ==
    /\ FailedRequests <= 5
    /\ attempt_number <= 5
    /\ \A j \in 1..Len(requests) : requests[j].attempt <= 5
    /\ pc = "fetch_projects" => attempt_number = FailedRequests + 1
    /\ pc = "aborted" <=> FailedRequests = 5

C19_Witness ==
    /\ pc = "aborted"
    /\ FailedRequests = 5
    /\ Cardinality({requests[j].page : j \in {k \in 1..Len(requests) : ~requests[k].ok}}) >= 2

\* C12 as stated: in the accumulator and in the final report the rows of
\* one project are contiguous, and the projects appear in the order in
\* which their workers completed.
Contiguous(rows) ==
    \A a, b \in 1..Len(rows) :
        (a < b /\ rows[a][1] = rows[b][1])
            => \A c \in a..b : rows[c][1] = rows[a][1]

TaskNamed(name) == CHOOSE i \in 1..Len(projects) : projects[i].name = name
CompletedAt(i) == CHOOSE p \in 1..Len(completed) : completed[p] = i

InCompletionOrder(rows) ==
    \A a, b \in 1..Len(rows) :
        (a < b /\ rows[a][1] # rows[b][1])
            => CompletedAt(TaskNamed(rows[a][1])) < CompletedAt(TaskNamed(rows[b][1]))

C12_ContiguousInCompletionOrder ==
    /\ Contiguous(results)
    /\ InCompletionOrder(results)
    /\ pc = "done" =>
            /\ Contiguous(Tail(output_file.content))
            /\ InCompletionOrder(Tail(output_file.content))

\* C12 as amended: the rows of one project are contiguous, and the projects
\* appear in the order in which as_completed yields their futures: first,
\* in no particular order, those whose workers had completed before the
\* iteration started, then the others in the order of their completion.
Unread == {j \in Tasks : IsFinished(j) /\ consumed[j] = 0}

C12_ContiguousInYieldOrder ==
    /\ [](/\ Contiguous(results)
          /\ pc = "done" => Tail(output_file.content) = results)
    /\ [][\A i \in Tasks :
            consumed'[i] # consumed[i] =>
                \/ i \in finished
                \/ /\ finished = {}
                   /\ \A j \in Unread \ {i} : CompletedAt(i) < CompletedAt(j)]_vars

\* two projects completed before the iteration started and were read
\* against their completion order; a third completed later and is next
C12_Witness ==
    /\ pc = "collect"
    /\ ~InCompletionOrder(results)
    /\ Contiguous(results)
    /\ finished = {}
    /\ finished_futures # <<>>
    /\ Unread # {}

\* C20: every run ends, done or aborted; the listing makes at most 5
\* attempts and every worker at most 5 attempts per call; once the
\* inventory is written the run reaches its end with every project
\* completed and read and the rows appended to the report.
AllCollected ==
    /\ Len(task) = backend.n
    /\ \A i \in Tasks : IsFinished(i) /\ consumed[i] = 1
    /\ output_file = File(<<Header>> \o results)

C20_Terminates ==
    /\ <>[](pc \in {"done", "aborted"} /\ ~ENABLED Next)
    /\ [](/\ attempt_number <= 5
          /\ \A i \in Tasks :
                /\ task[i].tries.get_project <= 5
                /\ task[i].tries.get_branch <= 5
                /\ task[i].tries.search_blobs <= 5
          /\ pc = "aborted" => ~projects_json_file.exists
          /\ pc = "done" => AllCollected)

C20_Witness ==
    /\ pc = "done"
    /\ AllCollected
    /\ Len(task) >= 2
    /\ \E i \in Tasks : task[i].tries.get_project = 5
    /\ \E i \in Tasks : task[i].results # <<>>
====
